---------------------------- MODULE Spec2Model ----------------------------
(***************************************************************************)
(* QRIS payment API (AllxdDev-Hosting/Rest_Api).                           *)
(*                                                                         *)
(* Two route files register /orderkuota/createpayment and                  *)
(* /orderkuota/cekstatus:                                                  *)
(*   src/api/orderkouta/orderkuota.js  calculateCRC16, createDynamicQRIS,  *)
(*                                     checkLatestTransaction, the routes  *)
(*   src/unnamed/part_000              convertCRC16, createQRIS, the routes*)
(*                                                                         *)
(* A JavaScript string is modelled as the sequence of its UTF-16 code      *)
(* units (integers 0..65535), so that charCodeAt, slice, replace, split    *)
(* and concatenation are computed as the engine computes them.  A 32-bit   *)
(* integer (the operand type of ^, & and <<) is modelled as its two 16-bit *)
(* halves, [hi, lo], each in 0..65535: the bit pattern of the int32.       *)
(***************************************************************************)
EXTENDS Integers, Sequences, FiniteSets, TLC

VARIABLES
    crcStr,        \* the string handed to the two checksum functions
    crcA,          \* result of calculateCRC16(crcStr), or NoValue before the call
    crcB,          \* result of convertCRC16(crcStr), or NoValue before the call
    globalApikey,  \* global.apikey, the allow-list both files read
    query,         \* query[r]: req.query of request r (NoQuery before it arrives)
    pc,            \* pc[r]: where the handler of request r is suspended
    calls,         \* calls[r]: the calls to external collaborators made for r,
                   \*   each with its argument and how it was settled
    sent           \* sent[r]: the responses written for r, in order

crcVars == <<crcStr, crcA, crcB>>

httpVars == <<globalApikey, query, pc, calls, sent>>

vars == <<crcStr, crcA, crcB, globalApikey, query, pc, calls, sent>>

NoValue == <<-1>>

(***************************************************************************)
(* Bounds of the model.                                                    *)
(***************************************************************************)
MaxCrcLen == 3       \* longest string handed to the checksum functions alone
NumRequests == 2     \* requests that may be in flight together
MaxSegments == 3     \* fields of a template before its checksum field
MaxAmountLen == 100  \* longest amount string
MaxEntries == 2      \* longest list of transactions the gateway returns

(***************************************************************************)
(* JavaScript primitives.                                                  *)
(***************************************************************************)
Half == 2^16

\* The 32-bit integers.
Int32 == [hi : 0..(Half - 1), lo : 0..(Half - 1)]

\* ToInt32 of a non-negative integer below 2^31.
ToInt32(n) == [hi |-> (n \div Half) % Half, lo |-> n % Half]

\* Bit k of a non-negative integer.
Bit(a, k) == (a \div 2^k) % 2

\* a ^ b and a & b on 4-bit digits, as tables.
Xor4 ==
    [a \in 0..15, b \in 0..15 |->
        ((Bit(a, 0) + Bit(b, 0)) % 2) + 2 * ((Bit(a, 1) + Bit(b, 1)) % 2)
        + 4 * ((Bit(a, 2) + Bit(b, 2)) % 2) + 8 * ((Bit(a, 3) + Bit(b, 3)) % 2)]

And4 ==
    [a \in 0..15, b \in 0..15 |->
        (Bit(a, 0) * Bit(b, 0)) + 2 * (Bit(a, 1) * Bit(b, 1))
        + 4 * (Bit(a, 2) * Bit(b, 2)) + 8 * (Bit(a, 3) * Bit(b, 3))]

\* Hexadecimal digit k of a 16-bit half.
Digit(a, k) == (a \div 16^k) % 16

\* a ^ b and a & b on 16-bit halves, digit by digit.
Xor16(a, b) ==
    Xor4[Digit(a, 0), Digit(b, 0)] + 16 * Xor4[Digit(a, 1), Digit(b, 1)]
    + 256 * Xor4[Digit(a, 2), Digit(b, 2)] + 4096 * Xor4[Digit(a, 3), Digit(b, 3)]

And16(a, b) ==
    And4[Digit(a, 0), Digit(b, 0)] + 16 * And4[Digit(a, 1), Digit(b, 1)]
    + 256 * And4[Digit(a, 2), Digit(b, 2)] + 4096 * And4[Digit(a, 3), Digit(b, 3)]

\* a ^ b on 32-bit integers.
BitXor(a, b) == [hi |-> Xor16(a.hi, b.hi), lo |-> Xor16(a.lo, b.lo)]

\* a & b on 32-bit integers.
BitAnd(a, b) == [hi |-> And16(a.hi, b.hi), lo |-> And16(a.lo, b.lo)]

\* a << k on 32-bit integers, 0 <= k <= 15: the top k bits of the low half
\* carry into the high half, the top k bits of the high half are lost.
ShiftLeft(a, k) ==
    [hi |-> (a.hi * 2^k + a.lo \div 2^(16 - k)) % Half, lo |-> (a.lo * 2^k) % Half]

\* ToBoolean of a 32-bit integer: zero is false, everything else true.
Truthy(a) == a.hi # 0 \/ a.lo # 0

\* The value of a 32-bit integer whose bits 16..31 are clear.
Low16Value(a) == a.lo

\* Code units of the characters used below.
Ch0 == 48
ChA == 65
Cha == 97

\* Number.prototype.toString(16): lower-case digits, no leading zeros, "0" for 0.
HexDigitLower(d) == IF d < 10 THEN Ch0 + d ELSE Cha + (d - 10)

RECURSIVE ToStringHex(_)
ToStringHex(n) ==
    IF n < 16 THEN <<HexDigitLower(n)>>
    ELSE Append(ToStringHex(n \div 16), HexDigitLower(n % 16))

\* String.prototype.toUpperCase on the characters toString(16) produces.
UpperChar(c) == IF c >= Cha /\ c <= Cha + 25 THEN c - (Cha - ChA) ELSE c

ToUpperCase(s) == [i \in 1..Len(s) |-> UpperChar(s[i])]

\* s.slice(-n): the last n characters, the whole string when it is shorter.
SliceLast(s, n) == IF Len(s) <= n THEN s ELSE SubSeq(s, Len(s) - n + 1, Len(s))

\* s.slice(0, -n): everything but the last n characters.
SliceDropLast(s, n) == IF Len(s) <= n THEN <<>> ELSE SubSeq(s, 1, Len(s) - n)

\* hex.slice(-4): the padding left out (a variant used to test the checksum
\* property).
PadHex4_NoPad(hex) == SliceLast(hex, 4)

\* ("000" + hex).slice(-4)
PadHex4(hex) == SliceLast(<<Ch0, Ch0, Ch0>> \o hex, 4)

(***************************************************************************)
(* calculateCRC16 (orderkuota.js) and convertCRC16 (part_000).             *)
(***************************************************************************)
Int_FFFF == ToInt32(65535)
Int_8000 == ToInt32(32768)
Int_1021 == ToInt32(4129)

\* The body of the inner loop: if (crc & 0x8000) crc = (crc << 1) ^ 0x1021;
\* else crc = crc << 1.
calculateCRC16_round(crc) ==
    IF Truthy(BitAnd(crc, Int_8000))
    THEN BitXor(ShiftLeft(crc, 1), Int_1021)
    ELSE ShiftLeft(crc, 1)

\* The inner loop, for (i = 0; i < 8; i++): crc after it, from crc before it.
calculateCRC16_rounds(crc) ==
    LET after[i \in 0..8] == IF i = 0 THEN crc ELSE calculateCRC16_round(after[i - 1])
    IN  after[8]

\* The outer loop, for (c = 0; c < str.length; c++): run[crc, from, to] is
\* crc after the iterations c = from .. to - 1, in order, from crc before
\* them.  An iteration is crc ^= str.charCodeAt(c) << 8, then the rounds.  (A
\* range of several iterations is run as its first half, then its second
\* half, which keeps the evaluation of a long string shallow.)
calculateCRC16_loop(str) ==
    LET run[crc \in Int32, from \in Nat, to \in Nat] ==
            IF from >= to THEN crc
            ELSE IF to - from = 1
            THEN calculateCRC16_rounds(BitXor(crc, ShiftLeft(ToInt32(str[from + 1]), 8)))
            ELSE run[run[crc, from, (from + to) \div 2], (from + to) \div 2, to]
    IN  run[Int_FFFF, 0, Len(str)]

calculateCRC16(str) ==
    PadHex4(ToUpperCase(ToStringHex(
        Low16Value(BitAnd(calculateCRC16_loop(str), Int_FFFF)))))

\* The body of the inner loop: if (crc & 0x8000) crc = (crc << 1) ^ 0x1021;
\* else crc = crc << 1.
convertCRC16_round(crc) ==
    IF Truthy(BitAnd(crc, Int_8000))
    THEN BitXor(ShiftLeft(crc, 1), Int_1021)
    ELSE ShiftLeft(crc, 1)

\* The inner loop, for (i = 0; i < 8; i++): crc after it, from crc before it.
convertCRC16_rounds(crc) ==
    LET after[i \in 0..8] == IF i = 0 THEN crc ELSE convertCRC16_round(after[i - 1])
    IN  after[8]

\* The outer loop, for (c = 0; c < str.length; c++): run[crc, from, to] is
\* crc after the iterations c = from .. to - 1, in order, from crc before
\* them.  An iteration is crc ^= str.charCodeAt(c) << 8, then the rounds.  (A
\* range of several iterations is run as its first half, then its second
\* half, which keeps the evaluation of a long string shallow.)
convertCRC16_loop(str) ==
    LET run[crc \in Int32, from \in Nat, to \in Nat] ==
            IF from >= to THEN crc
            ELSE IF to - from = 1
            THEN convertCRC16_rounds(BitXor(crc, ShiftLeft(ToInt32(str[from + 1]), 8)))
            ELSE run[run[crc, from, (from + to) \div 2], (from + to) \div 2, to]
    IN  run[Int_FFFF, 0, Len(str)]

convertCRC16(str) ==
    LET hex == Low16Value(BitAnd(convertCRC16_loop(str), Int_FFFF))
    IN  SliceLast(<<Ch0, Ch0, Ch0>> \o ToUpperCase(ToStringHex(hex)), 4)

(***************************************************************************)
(* String operations the composers use.                                    *)
(***************************************************************************)
\* The string literals of the two files, as code units.
Str_010211 == <<48, 49, 48, 50, 49, 49>>                \* "010211"
Str_010212 == <<48, 49, 48, 50, 49, 50>>                \* "010212"
Str_5802ID == <<53, 56, 48, 50, 73, 68>>                \* "5802ID"
Str_54 == <<53, 52>>                                    \* "54"
Str_0 == <<48>>                                         \* "0"
Str_undefined == <<117, 110, 100, 101, 102, 105, 110, 101, 100>>  \* "undefined"

\* The value undefined (an array element that does not exist).
Undefined == <<-2>>

\* Does s hold pat at (1-based) position i?
MatchAt(s, pat, i) ==
    /\ i >= 1
    /\ i + Len(pat) - 1 <= Len(s)
    /\ SubSeq(s, i, i + Len(pat) - 1) = pat

\* s.indexOf(pat, from) with 1-based positions; 0 when there is none.
IndexOf(s, pat, from) ==
    LET hits == {i \in from..(Len(s) - Len(pat) + 1) : MatchAt(s, pat, i)}
    IN  IF hits = {} THEN 0 ELSE CHOOSE i \in hits : \A j \in hits : i <= j

\* s.replace(pat, rep) with a string pattern: the first occurrence only.
Replace(s, pat, rep) ==
    LET i == IndexOf(s, pat, 1)
    IN  IF i = 0 THEN s
        ELSE SubSeq(s, 1, i - 1) \o rep \o SubSeq(s, i + Len(pat), Len(s))

\* s.split(sep) with a non-empty string separator: the pieces between the
\* occurrences found left to right, each search starting after the last one.
Split(s, sep) ==
    LET pieces[p \in 1..(Len(s) + 1)] ==
            LET i == IndexOf(s, sep, p)
            IN  IF i = 0 THEN <<SubSeq(s, p, Len(s))>>
                ELSE <<SubSeq(s, p, i - 1)>> \o pieces[i + Len(sep)]
    IN  pieces[1]

\* arr[k] with a 0-based index k: undefined past the end.
ElementAt(arr, k) == IF k + 1 <= Len(arr) THEN arr[k + 1] ELSE Undefined

\* ToString of a string or undefined, as string concatenation applies it.
ToStringValue(v) == IF v = Undefined THEN Str_undefined ELSE v

\* Number.prototype.toString() of a non-negative integer (a length).
ToStringDecimal(n) ==
    LET digits[m \in 0..n] ==
            IF m < 10 THEN <<Ch0 + m>>
            ELSE Append(digits[m \div 10], Ch0 + (m % 10))
    IN  digits[n]

(***************************************************************************)
(* The amount, a query-string value.  The amounts of this model are        *)
(* strings over the decimal digits, "-" and the letter "a"; for these      *)
(* ToNumber gives +0 for the empty string, the integer for an optional "-" *)
(* followed by digits, and NaN for anything else.                          *)
(***************************************************************************)
ChMinus == 45

IsDigit(c) == c >= Ch0 /\ c <= Ch0 + 9

AllDigits(s) == \A i \in 1..Len(s) : IsDigit(s[i])

\* isNaN(amount)
IsNaN(amount) ==
    /\ amount # <<>>
    /\ ~ (AllDigits(amount)
          \/ (Len(amount) >= 2 /\ amount[1] = ChMinus /\ AllDigits(Tail(amount))))

\* amount <= 0, for an amount that is not NaN: everything but an unsigned
\* digit string with a digit other than 0.
IsNonPositive(amount) ==
    ~ (AllDigits(amount) /\ \E i \in 1..Len(amount) : amount[i] # Ch0)

\* Number(amount) printed in decimal, for an amount that is positive: the
\* digits without their leading zeros (exact below 2^53).
NumberOf(amount) ==
    LET first == CHOOSE i \in 1..Len(amount) :
                    /\ amount[i] # Ch0
                    /\ \A j \in 1..(i - 1) : amount[j] = Ch0
    IN  SubSeq(amount, first, Len(amount))

(***************************************************************************)
(* The composers: the synchronous part of createDynamicQRIS                *)
(* (orderkuota.js) and of createQRIS (part_000), up to the string handed   *)
(* to QRCode.toBuffer.  The result is [throws, message, text]: the error   *)
(* thrown, or the text to render.                                          *)
(***************************************************************************)
Throws(msg) == [throws |-> TRUE, message |-> msg, text |-> <<>>]

Renders(text) == [throws |-> FALSE, message |-> "", text |-> text]

\* "54" + ("0" + amountStr.length).slice(-2) + amountStr
AmountField(amountStr) ==
    Str_54 \o SliceLast(Str_0 \o ToStringDecimal(Len(amountStr)), 2) \o amountStr

\* createDynamicQRIS with the checksum taken over the template before the
\* amount field is put in (a variant used to test the round-trip property).
createDynamicQRIS_staleChecksum(baseQrisData, amount) ==
    IF baseQrisData = <<>> \/ Len(baseQrisData) < 10
    THEN Throws("Invalid base QRIS data provided.")
    ELSE IF IsNaN(amount) \/ IsNonPositive(amount)
    THEN Throws("Invalid amount provided. Must be a positive number.")
    ELSE LET processedQris ==
                 Replace(SliceDropLast(baseQrisData, 4), Str_010211, Str_010212)
             parts == Split(processedQris, Str_5802ID)
         IN  IF Len(parts) # 2
             THEN Throws("QRIS data string has an unexpected format.")
             ELSE LET finalQrisString ==
                          parts[1] \o AmountField(amount) \o Str_5802ID \o parts[2]
                  IN  Renders(finalQrisString \o calculateCRC16(processedQris))

createDynamicQRIS_compose(baseQrisData, amount) ==
    IF baseQrisData = <<>> \/ Len(baseQrisData) < 10
    THEN Throws("Invalid base QRIS data provided.")
    ELSE IF IsNaN(amount) \/ IsNonPositive(amount)
    THEN Throws("Invalid amount provided. Must be a positive number.")
    ELSE LET processedQris ==
                 Replace(SliceDropLast(baseQrisData, 4), Str_010211, Str_010212)
             parts == Split(processedQris, Str_5802ID)
         IN  IF Len(parts) # 2
             THEN Throws("QRIS data string has an unexpected format.")
             ELSE LET amountStr == amount
                      amountField == AmountField(amountStr)
                      finalQrisString ==
                          parts[1] \o amountField \o Str_5802ID \o parts[2]
                      crc == calculateCRC16(finalQrisString)
                  IN  Renders(finalQrisString \o crc)

createQRIS_compose(amount, codeqr) ==
    LET qrisData == SliceDropLast(codeqr, 4)
        step1 == Replace(qrisData, Str_010211, Str_010212)
        step2 == Split(step1, Str_5802ID)
        uang == AmountField(amount) \o Str_5802ID
        body == ToStringValue(ElementAt(step2, 0)) \o uang
                    \o ToStringValue(ElementAt(step2, 1))
        result == body \o convertCRC16(body)
    IN  Renders(result)

(***************************************************************************)
(* The request handlers.  A handler runs without interruption up to its    *)
(* next await; what it is waiting for is its pc:                           *)
(*   "idle"       the request has not arrived                              *)
(*   "rendering"  await QRCode.toBuffer(...)                               *)
(*   "uploading"  await service.uploadFromBinary(...)                      *)
(*   "fetching"   await axios.get(...)                                     *)
(*   "done"       the handler returned                                     *)
(*   "crashed"    the handler threw outside its try block: no response     *)
(***************************************************************************)
Requests == 1..NumRequests

FileA == "orderkuota.js"
FileB == "part_000"

\* Time is counted in minutes, instants from 2025-11-02T00:00Z.  A time zone
\* is the local offset before and after one transition: new Date() and
\* setMinutes work on local time.
ExpiryMinutes == 30

Utc == [transition |-> 0, before |-> 0, after |-> 0]

\* America/New_York on 2025-11-02: at 06:00Z the clocks go back from
\* UTC-4:00 to UTC-5:00.
NewYork == [transition |-> 360, before |-> 0 - 240, after |-> 0 - 300]

TimeZones == {Utc, NewYork}

\* The values the environment supplies: the clock (01:45 local time in New
\* York, a quarter of an hour before the clocks go back), the random bytes,
\* the link of the uploaded image.
Times == {345}
RandomParts == {"0A1B2C3D"}
DirectLinks == {"https://img/1.png", "https://img/2.png"}

Response(code, body) == [status |-> code, body |-> body]

\* res.json(...) / res.status(...).json(...) followed by the handler's return.
Respond(r, response) ==
    /\ sent' = [sent EXCEPT ![r] = Append(@, response)]
    /\ pc' = [pc EXCEPT ![r] = "done"]

\* A call to a collaborator, pending until its promise is settled.
NewCall(fn, arg) == [fn |-> fn, arg |-> arg, outcome |-> "pending", value |-> <<>>]

Call(r, fn, arg) == calls' = [calls EXCEPT ![r] = Append(@, NewCall(fn, arg))]

LastCall(r) == calls[r][Len(calls[r])]

\* The calls of a request with the pending one settled.
Settled(cs, outcome, value) ==
    [cs EXCEPT ![Len(cs)] = [@ EXCEPT !.outcome = outcome, !.value = value]]

Settle(r, outcome, value) ==
    calls' = [calls EXCEPT ![r] = Settled(@, outcome, value)]

\* The error messages of the collaborators, which the source does not fix.
RenderFailure == "QRCode.toBuffer failed"
UploadFailure == "uploadFromBinary failed"
GatewayFailure == "axios.get failed"

\* The image QRCode.toBuffer resolves to.
PngOf(text) == [png |-> text]

\* !global.apikey || !global.apikey.includes(apikey)
Unauthorized(apikey) == ~ globalApikey.defined \/ apikey \notin globalApikey.keys

\* generateTransactionId() and generateExpirationTime(30) of orderkuota.js.
generateTransactionId(timestamp, randomPart) == <<"ALLXD-DEV", timestamp, randomPart>>

\* The local time of an instant: the fields getMinutes and setMinutes work on.
LocalTime(t, zone) ==
    t + (IF t < zone.transition THEN zone.before ELSE zone.after)

\* The instant of a local time.  A local time that occurs twice (the clocks
\* went back) or never (they went forward) is read with the offset before the
\* transition.
UtcOf(local, zone) ==
    IF local - zone.before < zone.transition THEN local - zone.before
    ELSE IF local - zone.after >= zone.transition THEN local - zone.after
    ELSE local - zone.before

\* new Date(), then setMinutes(getMinutes() + minutes): the minutes are added
\* to the local time, and the result is the instant of that local time.
generateExpirationTime(now, zone, minutes) ==
    UtcOf(LocalTime(now, zone) + minutes, zone)

\* The object createDynamicQRIS returns.
TransactionRecord(amount, imageUrl, now, zone, randomPart) ==
    [transactionId |-> generateTransactionId(now, randomPart),
     amount |-> NumberOf(amount),
     expiresAt |-> generateExpirationTime(now, zone, ExpiryMinutes),
     qrImageUrl |-> imageUrl]

\* The catch block of both routes of orderkuota.js.
InternalServerError(msg) ==
    Response(500, [status |-> FALSE, error |-> "Internal Server Error", message |-> msg])

\* GET /orderkuota/createpayment of orderkuota.js, up to the first await
\* inside createDynamicQRIS.
CreatePaymentRequest(r, q) ==
    /\ pc[r] = "idle"
    /\ q.file = FileA /\ q.route = "createpayment"
    /\ query' = [query EXCEPT ![r] = q]
    /\ IF Unauthorized(q.apikey)
       THEN /\ Respond(r, Response(401, [status |-> FALSE,
                                         error |-> "Unauthorized: Invalid API key"]))
            /\ UNCHANGED calls
       ELSE IF q.amount = <<>>
       THEN /\ Respond(r, Response(400, [status |-> FALSE,
                                         error |-> "Bad Request: Amount is required"]))
            /\ UNCHANGED calls
       ELSE IF q.codeqr = <<>>
       THEN /\ Respond(r, Response(400, [status |-> FALSE,
                        error |-> "Bad Request: Base QRIS code (codeqr) is required"]))
            /\ UNCHANGED calls
       ELSE LET composed == createDynamicQRIS_compose(q.codeqr, q.amount)
            IN  IF composed.throws
                THEN /\ Respond(r, InternalServerError(composed.message))
                     /\ UNCHANGED calls
                ELSE /\ Call(r, "QRCode.toBuffer", composed.text)
                     /\ pc' = [pc EXCEPT ![r] = "rendering"]
                     /\ UNCHANGED sent
    /\ UNCHANGED <<globalApikey, crcVars>>

\* QRCode.toBuffer resolves: createDynamicQRIS goes on to uploadImage(qrBuffer).
RenderResolves(r) ==
    /\ pc[r] = "rendering"
    /\ query[r].file = FileA
    /\ LET qrBuffer == PngOf(LastCall(r).arg)
       IN  calls' = [calls EXCEPT ![r] =
                        Append(Settled(@, "resolved", qrBuffer),
                               NewCall("uploadFromBinary", qrBuffer))]
    /\ pc' = [pc EXCEPT ![r] = "uploading"]
    /\ UNCHANGED <<globalApikey, query, sent, crcVars>>

\* QRCode.toBuffer rejects: the catch block rethrows, the route answers 500.
RenderRejects(r) ==
    /\ pc[r] = "rendering"
    /\ query[r].file = FileA
    /\ Respond(r, InternalServerError(RenderFailure))
    /\ Settle(r, "rejected", RenderFailure)
    /\ UNCHANGED <<globalApikey, query, crcVars>>

\* uploadFromBinary resolves with a directLink: the record is built and sent.
UploadResolves(r) ==
    /\ pc[r] = "uploading"
    /\ query[r].file = FileA
    /\ \E directLink \in DirectLinks, now \in Times, zone \in TimeZones,
          randomPart \in RandomParts :
          /\ Settle(r, "resolved", directLink)
          /\ Respond(r, Response(200,
                [status |-> TRUE,
                 message |-> "QRIS payment created successfully.",
                 result |-> TransactionRecord(query[r].amount, directLink,
                                              now, zone, randomPart)]))
    /\ UNCHANGED <<globalApikey, query, crcVars>>

\* Variants of UploadRejects (used to test the properties of the responses):
\* one answers with the record built so far, one fails every request that is
\* waiting for its upload.
UploadRejects_partialRecord(r) ==
    /\ pc[r] = "uploading"
    /\ query[r].file = FileA
    /\ Respond(r, Response(200,
          [status |-> TRUE,
           message |-> "QRIS payment created successfully.",
           result |-> [transactionId |-> generateTransactionId(0, "0A1B2C3D"),
                       amount |-> NumberOf(query[r].amount),
                       expiresAt |-> generateExpirationTime(0, Utc, ExpiryMinutes)]]))
    /\ Settle(r, "rejected", UploadFailure)
    /\ UNCHANGED <<globalApikey, query, crcVars>>

UploadRejects_sharedFailure(r) ==
    /\ pc[r] = "uploading"
    /\ query[r].file = FileA
    /\ sent' = [s \in Requests |->
                   IF pc[s] = "uploading"
                   THEN Append(sent[s], InternalServerError("Failed to upload QR code image."))
                   ELSE sent[s]]
    /\ pc' = [s \in Requests |-> IF pc[s] = "uploading" THEN "done" ELSE pc[s]]
    /\ Settle(r, "rejected", UploadFailure)
    /\ UNCHANGED <<globalApikey, query, crcVars>>

\* uploadFromBinary rejects: uploadImage throws its own error, the route
\* answers 500.
UploadRejects(r) ==
    /\ pc[r] = "uploading"
    /\ query[r].file = FileA
    /\ Respond(r, InternalServerError("Failed to upload QR code image."))
    /\ Settle(r, "rejected", UploadFailure)
    /\ UNCHANGED <<globalApikey, query, crcVars>>

\* GET /orderkuota/cekstatus of orderkuota.js, up to the await of axios.get
\* inside checkLatestTransaction.
CekStatusRequest(r, q) ==
    /\ pc[r] = "idle"
    /\ q.file = FileA /\ q.route = "cekstatus"
    /\ query' = [query EXCEPT ![r] = q]
    /\ IF Unauthorized(q.apikey)
       THEN /\ Respond(r, Response(401, [status |-> FALSE,
                                         error |-> "Unauthorized: Invalid API key"]))
            /\ UNCHANGED calls
       ELSE IF q.merchant = ""
       THEN /\ Respond(r, Response(400, [status |-> FALSE,
                                  error |-> "Bad Request: Merchant ID is required"]))
            /\ UNCHANGED calls
       ELSE IF q.keyorkut = ""
       THEN /\ Respond(r, Response(400, [status |-> FALSE,
                   error |-> "Bad Request: Gateway API key (keyorkut) is required"]))
            /\ UNCHANGED calls
       ELSE /\ Call(r, "axios.get", <<q.merchant, q.keyorkut>>)
            /\ pc' = [pc EXCEPT ![r] = "fetching"]
            /\ UNCHANGED sent
    /\ UNCHANGED <<globalApikey, crcVars>>

\* What the gateway answers: response.data.  It is the empty string (an empty
\* body), null (the body "null") or an object with its success flag and
\* its data list (hasData FALSE: no list).
Entry(n) ==
    [date |-> <<"2025-01-01", n>>, brand_name |-> "BankA", amount |-> 1000 * n]

\* The list of the n most recent transactions, the most recent first.
EntryList(n) == [i \in 1..n |-> Entry(n + 1 - i)]

EntryLists == {EntryList(n) : n \in 0..MaxEntries}

GatewayBodies ==
    {[kind |-> k, success |-> FALSE, hasData |-> FALSE, data |-> <<>>] :
            k \in {"empty", "null"}}
    \cup {[kind |-> "object", success |-> ok, hasData |-> FALSE, data |-> <<>>] :
            ok \in BOOLEAN}
    \cup {[kind |-> "object", success |-> ok, hasData |-> TRUE, data |-> list] :
            ok \in BOOLEAN, list \in EntryLists}

\* checkLatestTransaction once axios.get has resolved with body:
\* [throws, value], value being the first entry or null (hasEntry FALSE).
checkLatestTransaction(body) ==
    IF body.kind = "object" /\ body.success /\ ~ body.hasData
    THEN \* response.data.data.length throws a TypeError; the catch block
         \* replaces it.
         [throws |-> TRUE, hasEntry |-> FALSE, entry |-> <<>>]
    ELSE IF body.kind = "object" /\ body.success /\ Len(body.data) > 0
    THEN [throws |-> FALSE, hasEntry |-> TRUE, entry |-> body.data[1]]
    ELSE [throws |-> FALSE, hasEntry |-> FALSE, entry |-> <<>>]

CouldNotFetch == "Could not fetch transaction status from the gateway."

NoTransactionsFound == Response(404, [status |-> FALSE, message |-> "No transactions found."])

LatestTransaction(entry) ==
    Response(200, [status |-> TRUE,
                   message |-> "Latest transaction retrieved successfully.",
                   result |-> entry])

\* axios.get resolves: the rest of checkLatestTransaction and of the route.
GatewayResolves(r) ==
    /\ pc[r] = "fetching"
    /\ query[r].file = FileA
    /\ \E body \in GatewayBodies :
          /\ Settle(r, "resolved", body)
          /\ LET latest == checkLatestTransaction(body)
             IN  IF latest.throws
                 THEN Respond(r, InternalServerError(CouldNotFetch))
                 ELSE IF latest.hasEntry
                 THEN Respond(r, LatestTransaction(latest.entry))
                 ELSE Respond(r, NoTransactionsFound)
    /\ UNCHANGED <<globalApikey, query, crcVars>>

\* axios.get rejects (no connection, a status outside 2xx).
GatewayRejects(r) ==
    /\ pc[r] = "fetching"
    /\ query[r].file = FileA
    /\ Respond(r, InternalServerError(CouldNotFetch))
    /\ Settle(r, "rejected", GatewayFailure)
    /\ UNCHANGED <<globalApikey, query, crcVars>>

(***************************************************************************)
(* GET /orderkuota/createpayment of part_000.                              *)
(***************************************************************************)
\* The catch block of the route: res.status(500).json({ error: error.message }).
LegacyError(msg) == Response(500, [error |-> msg])

\* generateTransactionId() and generateExpirationTime() of part_000: 30
\* minutes are added to the local time, as in orderkuota.js.
LegacyTransactionId(randomPart) == <<"AllxdDev", randomPart>>

LegacyExpirationTime(now, zone) == UtcOf(LocalTime(now, zone) + ExpiryMinutes, zone)

\* The object createQRIS returns.
LegacyRecord(amount, uploadedFile, now, zone, randomPart) ==
    [idtransaksi |-> LegacyTransactionId(randomPart),
     jumlah |-> amount,
     expired |-> LegacyExpirationTime(now, zone),
     imageqris |-> [url |-> uploadedFile]]

LegacyCreatePaymentRequest(r, q) ==
    /\ pc[r] = "idle"
    /\ q.file = FileB /\ q.route = "createpayment"
    /\ query' = [query EXCEPT ![r] = q]
    /\ IF ~ globalApikey.defined
       THEN \* global.apikey.includes throws a TypeError outside the try block.
            /\ pc' = [pc EXCEPT ![r] = "crashed"]
            /\ UNCHANGED <<calls, sent>>
       ELSE IF q.apikey \notin globalApikey.keys
       THEN /\ Respond(r, Response(200, [status |-> FALSE, error |-> "Apikey invalid"]))
            /\ UNCHANGED calls
       ELSE IF q.amount = <<>>
       THEN /\ Respond(r, Response(200, [status |-> FALSE, error |-> "Amount is required"]))
            /\ UNCHANGED calls
       ELSE IF q.codeqr = <<>>
       THEN /\ Respond(r, Response(200, [status |-> FALSE, error |-> "QrCode is required"]))
            /\ UNCHANGED calls
       ELSE LET composed == createQRIS_compose(q.amount, q.codeqr)
            IN  /\ Call(r, "QRCode.toBuffer", composed.text)
                /\ pc' = [pc EXCEPT ![r] = "rendering"]
                /\ UNCHANGED sent
    /\ UNCHANGED <<globalApikey, crcVars>>

\* QRCode.toBuffer resolves: createQRIS goes on to elxyzFile(buffer).
LegacyRenderResolves(r) ==
    /\ pc[r] = "rendering"
    /\ query[r].file = FileB
    /\ LET qrBuffer == PngOf(LastCall(r).arg)
       IN  calls' = [calls EXCEPT ![r] =
                        Append(Settled(@, "resolved", qrBuffer),
                               NewCall("uploadFromBinary", qrBuffer))]
    /\ pc' = [pc EXCEPT ![r] = "uploading"]
    /\ UNCHANGED <<globalApikey, query, sent, crcVars>>

LegacyRenderRejects(r) ==
    /\ pc[r] = "rendering"
    /\ query[r].file = FileB
    /\ Respond(r, LegacyError(RenderFailure))
    /\ Settle(r, "rejected", RenderFailure)
    /\ UNCHANGED <<globalApikey, query, crcVars>>

LegacyUploadResolves(r) ==
    /\ pc[r] = "uploading"
    /\ query[r].file = FileB
    /\ \E directLink \in DirectLinks, now \in Times, zone \in TimeZones,
          randomPart \in RandomParts :
          /\ Settle(r, "resolved", directLink)
          /\ Respond(r, Response(200,
                [status |-> TRUE,
                 result |-> LegacyRecord(query[r].amount, directLink,
                                         now, zone, randomPart)]))
    /\ UNCHANGED <<globalApikey, query, crcVars>>

\* elxyzFile rejects with the upload service's own error.
LegacyUploadRejects(r) ==
    /\ pc[r] = "uploading"
    /\ query[r].file = FileB
    /\ Respond(r, LegacyError(UploadFailure))
    /\ Settle(r, "rejected", UploadFailure)
    /\ UNCHANGED <<globalApikey, query, crcVars>>

(***************************************************************************)
(* GET /orderkuota/cekstatus of part_000.                                  *)
(***************************************************************************)
LegacyCekStatusRequest(r, q) ==
    /\ pc[r] = "idle"
    /\ q.file = FileB /\ q.route = "cekstatus"
    /\ query' = [query EXCEPT ![r] = q]
    /\ IF ~ globalApikey.defined
       THEN \* global.apikey.includes throws a TypeError outside the try block.
            /\ pc' = [pc EXCEPT ![r] = "crashed"]
            /\ UNCHANGED <<calls, sent>>
       ELSE IF q.apikey \notin globalApikey.keys
       THEN /\ Respond(r, Response(200, [status |-> FALSE, error |-> "Apikey invalid"]))
            /\ UNCHANGED calls
       ELSE IF q.merchant = ""
       THEN /\ Respond(r, Response(200, [status |-> FALSE,
                                         error |-> "Merchant ID is required"]))
            /\ UNCHANGED calls
       ELSE IF q.keyorkut = ""
       THEN /\ Respond(r, Response(200, [status |-> FALSE,
                                         error |-> "Apikey Orderkuota is required"]))
            /\ UNCHANGED calls
       ELSE /\ Call(r, "axios.get", <<q.merchant, q.keyorkut>>)
            /\ pc' = [pc EXCEPT ![r] = "fetching"]
            /\ UNCHANGED sent
    /\ UNCHANGED <<globalApikey, crcVars>>

\* The message of the TypeError that reading result.data of null throws.
LegacyTypeError == "Cannot read properties of null (reading 'data')"

\* axios.get resolves: result.data && result.data.length > 0 ? result.data[0]
\* : null, whatever the success flag says; a null body throws on result.data.
LegacyGatewayResolves(r) ==
    /\ pc[r] = "fetching"
    /\ query[r].file = FileB
    /\ \E body \in GatewayBodies :
          /\ Settle(r, "resolved", body)
          /\ IF body.kind = "null"
             THEN Respond(r, LegacyError(LegacyTypeError))
             ELSE IF body.kind = "object" /\ body.hasData /\ Len(body.data) > 0
             THEN Respond(r, Response(200, [status |-> TRUE, result |-> body.data[1]]))
             ELSE Respond(r, Response(200, [message |-> "No transactions found."]))
    /\ UNCHANGED <<globalApikey, query, crcVars>>

\* axios.get rejects: the catch block answers 500 with the error's message.
LegacyGatewayRejects(r) ==
    /\ pc[r] = "fetching"
    /\ query[r].file = FileB
    /\ Respond(r, LegacyError(GatewayFailure))
    /\ Settle(r, "rejected", GatewayFailure)
    /\ UNCHANGED <<globalApikey, query, crcVars>>

(***************************************************************************)
(* The requests the model sends.                                           *)
(***************************************************************************)
Str_000201 == <<48, 48, 48, 50, 48, 49>>                \* "000201"
Str_6304ABCD == <<54, 51, 48, 52, 65, 66, 67, 68>>      \* "6304ABCD"
Str_1000 == <<49, 48, 48, 48>>                          \* "1000"
Str_zero == <<48>>                                      \* "0"
Str_minus5 == <<45, 53>>                                \* "-5"
Str_1a == <<49, 97>>                                    \* "1a"

\* The fields a template is put together from, and the templates: up to
\* MaxSegments fields followed by a checksum field.
Segments == {Str_000201, Str_010211, Str_010212, Str_5802ID}

Flatten(segs) ==
    LET cat[n \in 0..Len(segs)] == IF n = 0 THEN <<>> ELSE cat[n - 1] \o segs[n]
    IN  cat[Len(segs)]

Templates ==
    {Flatten(segs) \o Str_6304ABCD :
        segs \in UNION {[1..n -> Segments] : n \in 0..MaxSegments}}

\* "00...01" of n characters.
ZeroPadded(n) == [i \in 1..n |-> IF i = n THEN Ch0 + 1 ELSE Ch0]

Amounts ==
    {Str_1000, Str_zero, Str_minus5, Str_1a, Str_010211,
     ZeroPadded(9), ZeroPadded(10),
     ZeroPadded(MaxAmountLen - 1), ZeroPadded(MaxAmountLen)}

GoodKey == "secret"

NoQuery ==
    [file |-> "", route |-> "", apikey |-> "", amount |-> <<>>, codeqr |-> <<>>,
     merchant |-> "", keyorkut |-> ""]

CreatePaymentQuery(file, apikey, amount, codeqr) ==
    [file |-> file, route |-> "createpayment", apikey |-> apikey,
     amount |-> amount, codeqr |-> codeqr, merchant |-> "", keyorkut |-> ""]

CekStatusQuery(file, apikey, merchant, keyorkut) ==
    [file |-> file, route |-> "cekstatus", apikey |-> apikey,
     amount |-> <<>>, codeqr |-> <<>>, merchant |-> merchant, keyorkut |-> keyorkut]

\* Every template with every amount, to either file.
ComposeQueries ==
    {CreatePaymentQuery(file, GoodKey, amount, codeqr) :
        file \in {FileA, FileB}, amount \in Amounts, codeqr \in Templates}

\* A few requests of every kind, for the runs with several requests in flight.
Template_static == Str_000201 \o Str_010211 \o Str_5802ID \o Str_6304ABCD

Template_noAnchor == Str_000201 \o Str_010211 \o Str_6304ABCD

MainQueries ==
    UNION {{CreatePaymentQuery(file, "wrong", Str_1000, Template_static),
            CreatePaymentQuery(file, GoodKey, <<>>, Template_static),
            CreatePaymentQuery(file, GoodKey, Str_1000, <<>>),
            CreatePaymentQuery(file, GoodKey, Str_1000, Template_static)} :
           file \in {FileA, FileB}}
    \cup {CreatePaymentQuery(FileA, GoodKey, Str_1000, Template_noAnchor)}
    \cup UNION {{CekStatusQuery(file, "wrong", "OK123", "gatewaykey"),
                  CekStatusQuery(file, GoodKey, "", "gatewaykey"),
                  CekStatusQuery(file, GoodKey, "OK123", ""),
                  CekStatusQuery(file, GoodKey, "OK123", "gatewaykey")} :
                 file \in {FileA, FileB}}

(***************************************************************************)
(* The checksum functions applied to arbitrary character sequences.        *)
(***************************************************************************)
\* Code units the checksum is exercised on: NUL, "1", 0x80, 0xFF, and two
\* characters above 255 (0x0131, whose low byte is that of "1", and 0xFFFF).
CrcAlphabet == {0, 49, 128, 255, 305, 65535}

TypeChar ==
    /\ Len(crcStr) < MaxCrcLen
    /\ \E ch \in CrcAlphabet : crcStr' = Append(crcStr, ch)
    /\ crcA' = NoValue
    /\ crcB' = NoValue
    /\ UNCHANGED httpVars

CallCalculateCRC16 ==
    /\ crcA = NoValue
    /\ crcA' = calculateCRC16(crcStr)
    /\ UNCHANGED <<crcStr, crcB, httpVars>>

CallConvertCRC16 ==
    /\ crcB = NoValue
    /\ crcB' = convertCRC16(crcStr)
    /\ UNCHANGED <<crcStr, crcA, httpVars>>

(***************************************************************************)
(* Specifications.                                                         *)
(***************************************************************************)
Init ==
    /\ crcStr = <<>>
    /\ crcA = NoValue
    /\ crcB = NoValue
    /\ globalApikey \in {[defined |-> TRUE, keys |-> {GoodKey}],
                         [defined |-> FALSE, keys |-> {}]}
    /\ query = [r \in Requests |-> NoQuery]
    /\ pc = [r \in Requests |-> "idle"]
    /\ calls = [r \in Requests |-> <<>>]
    /\ sent = [r \in Requests |-> <<>>]

\* Several requests in flight, interleaved at their awaits.
Next ==
    \E r \in Requests :
        \/ \E q \in MainQueries : CreatePaymentRequest(r, q)
        \/ RenderResolves(r)
        \/ RenderRejects(r)
        \/ UploadResolves(r)
        \/ UploadRejects(r)
        \/ \E q \in MainQueries : CekStatusRequest(r, q)
        \/ GatewayResolves(r)
        \/ GatewayRejects(r)
        \/ \E q \in MainQueries : LegacyCreatePaymentRequest(r, q)
        \/ LegacyRenderResolves(r)
        \/ LegacyRenderRejects(r)
        \/ LegacyUploadResolves(r)
        \/ LegacyUploadRejects(r)
        \/ \E q \in MainQueries : LegacyCekStatusRequest(r, q)
        \/ LegacyGatewayResolves(r)
        \/ LegacyGatewayRejects(r)

Spec == Init /\ [][Next]_vars

\* One createpayment request, of any template and amount, to either file.
NextCompose ==
    \/ \E q \in ComposeQueries : CreatePaymentRequest(1, q)
    \/ RenderResolves(1)
    \/ RenderRejects(1)
    \/ UploadResolves(1)
    \/ UploadRejects(1)
    \/ \E q \in ComposeQueries : LegacyCreatePaymentRequest(1, q)
    \/ LegacyRenderResolves(1)
    \/ LegacyRenderRejects(1)
    \/ LegacyUploadResolves(1)
    \/ LegacyUploadRejects(1)

SpecCompose == Init /\ [][NextCompose]_vars

\* The two checksum functions on every string over CrcAlphabet up to MaxCrcLen.
NextCRC == TypeChar \/ CallCalculateCRC16 \/ CallConvertCRC16

SpecCRC == Init /\ [][NextCRC]_vars

(***************************************************************************)
(* Properties.                                                             *)
(***************************************************************************)
\* Number of places where pat occurs in s.
Count(s, pat) == Cardinality({i \in 1..Len(s) : MatchAt(s, pat, i)})

Arrived(r) == pc[r] # "idle"

\* Request r is a createpayment request that passed the route's validation.
ReachedComposer(r) ==
    /\ Arrived(r)
    /\ query[r].route = "createpayment"
    /\ globalApikey.defined
    /\ query[r].apikey \in globalApikey.keys
    /\ query[r].amount # <<>>
    /\ query[r].codeqr # <<>>

\* The handler of r is waiting for QRCode.toBuffer: the payload was just
\* handed to the renderer.
HandedToRenderer(r) == pc[r] = "rendering"

Payload(r) == calls[r][1].arg

ChecksumOf(file, str) ==
    IF file = FileA THEN calculateCRC16(str) ELSE convertCRC16(str)

\* Request r failed with an error before anything was rendered.
FailedBeforeRendering(r) ==
    /\ calls[r] = <<>>
    /\ pc[r] = "done"
    /\ Len(sent[r]) = 1
    /\ sent[r][1].status >= 400

\* C1 (round trip): whenever either composer hands a string to the renderer,
\* the string has at least 4 characters and its last 4 characters are the
\* checksum function of that file applied to the string without them.
C1_RoundTrip ==
    \A r \in Requests :
        HandedToRenderer(r) =>
            /\ Len(Payload(r)) >= 4
            /\ SliceLast(Payload(r), 4)
                   = ChecksumOf(query[r].file, SliceDropLast(Payload(r), 4))

\* C1, its case: createDynamicQRIS has handed the renderer the payload of a
\* template with one anchor and the amount "1000".
C1_Witness ==
    \E r \in Requests :
        /\ HandedToRenderer(r)
        /\ query[r].file = FileA
        /\ query[r].amount = Str_1000
        /\ Count(Payload(r), Str_5802ID) = 1
        /\ Len(Payload(r)) > Len(query[r].codeqr)

\* C2 (mode switch): every payload handed to the renderer holds the static
\* marker "010211" nowhere and the dynamic marker "010212" exactly once.
C2_ModeSwitch ==
    \A r \in Requests :
        HandedToRenderer(r) =>
            /\ Count(Payload(r), Str_010211) = 0
            /\ Count(Payload(r), Str_010212) = 1

\* The two decimal digits that spell n, for n up to 99.
TwoDigitsOf(n) == {<<Ch0 + d1, Ch0 + d2>> : d1 \in {n \div 10} \cap (0..9), d2 \in {n % 10}}

\* The head segment: everything before the first anchor of the template
\* without its checksum, the mode marker switched.
HeadOf(codeqr) ==
    Split(Replace(SliceDropLast(codeqr, 4), Str_010211, Str_010212), Str_5802ID)[1]

\* C3 (amount field): every payload handed to the renderer starts with the
\* head segment, followed at once by "54", two decimal digits that spell the
\* length of the amount string, the amount string, and the anchor.
C3_AmountField ==
    \A r \in Requests :
        HandedToRenderer(r) =>
            \E ll \in TwoDigitsOf(Len(query[r].amount)) :
                MatchAt(Payload(r),
                        HeadOf(query[r].codeqr) \o Str_54 \o ll \o query[r].amount
                            \o Str_5802ID,
                        1)

\* An amount the composer has to refuse: not a number, not positive, or
\* longer than 99 characters.
InvalidAmount(amount) ==
    IsNaN(amount) \/ IsNonPositive(amount) \/ Len(amount) > 99

\* C4 (amount validation): a request whose amount is not a number, not
\* positive or longer than 99 characters fails with an error, and nothing is
\* handed to the renderer for it.
C4_AmountValidation ==
    \A r \in Requests :
        (ReachedComposer(r) /\ InvalidAmount(query[r].amount)) =>
            FailedBeforeRendering(r)

\* Occurrences of the anchor in the template without its checksum.
AnchorCount(codeqr) == Count(SliceDropLast(codeqr, 4), Str_5802ID)

\* C5 (malformed template): a request whose template, without its checksum,
\* does not hold the anchor "5802ID" exactly once fails with an error, and
\* nothing is handed to the renderer for it.
C5_MalformedTemplate ==
    \A r \in Requests :
        (ReachedComposer(r) /\ AnchorCount(query[r].codeqr) # 1) =>
            FailedBeforeRendering(r)

\* CRC-16/CCITT-FALSE, by the book: the register is a 16-bit polynomial over
\* GF(2), written as the set of the exponents of its terms; adding is the
\* symmetric difference, and a step multiplies by x modulo
\* x^16 + x^12 + x^5 + 1.
Poly_1021 == {12, 5, 0}

SymDiff(a, b) == (a \ b) \cup (b \ a)

TimesX(reg) ==
    LET shifted == {i + 1 : i \in reg \ {15}}
    IN  IF 15 \in reg THEN SymDiff(shifted, Poly_1021) ELSE shifted

\* The low byte of a character, moved to the top of the register.
TopByte(code) == {i + 8 : i \in {j \in 0..7 : Bit(code % 256, j) = 1}}

Ccitt_False(str) ==
    LET reg[n \in 0..Len(str)] ==
            IF n = 0 THEN 0..15
            ELSE LET step[i \in 0..8] ==
                         IF i = 0 THEN SymDiff(reg[n - 1], TopByte(str[n]))
                         ELSE TimesX(step[i - 1])
                 IN  step[8]
    IN  reg[Len(str)]

\* The 4 upper-case hexadecimal characters of a 16-bit register.
HexUpper(d) == IF d < 10 THEN 48 + d ELSE 55 + d

NibbleOf(reg, k) ==
    (IF 4 * k \in reg THEN 1 ELSE 0) + (IF 4 * k + 1 \in reg THEN 2 ELSE 0)
    + (IF 4 * k + 2 \in reg THEN 4 ELSE 0) + (IF 4 * k + 3 \in reg THEN 8 ELSE 0)

Rendering(reg) ==
    <<HexUpper(NibbleOf(reg, 3)), HexUpper(NibbleOf(reg, 2)),
      HexUpper(NibbleOf(reg, 1)), HexUpper(NibbleOf(reg, 0))>>

IsUpperHex(c) == (c >= 48 /\ c <= 57) \/ (c >= 65 /\ c <= 70)

MatchesReference(result, str) ==
    /\ Len(result) = 4
    /\ \A i \in 1..4 : IsUpperHex(result[i])
    /\ result = Rendering(Ccitt_False(str))
    /\ str = <<>> => result = <<70, 70, 70, 70>>

\* C6 (checksum reference): what calculateCRC16 and convertCRC16 return for a
\* string is 4 upper-case hexadecimal characters, the zero-padded rendering of
\* the CRC-16/CCITT-FALSE value of the low bytes of its characters; "FFFF"
\* for the empty string.
C6_ChecksumReference ==
    /\ crcA # NoValue => MatchesReference(crcA, crcStr)
    /\ crcB # NoValue => MatchesReference(crcB, crcStr)

\* C6, its case: both functions have returned for a string that holds a
\* character above 255 and a character below.
C6_Witness ==
    /\ crcA # NoValue
    /\ crcB # NoValue
    /\ \E i, j \in 1..Len(crcStr) : crcStr[i] > 255 /\ crcStr[j] < 128 /\ crcStr[j] > 0

\* Request r is a createpayment request to orderkuota.js.
CreatePaymentA(r) ==
    Arrived(r) /\ query[r].file = FileA /\ query[r].route = "createpayment"

\* The response carries a complete transaction record.
CompleteRecord(response) ==
    /\ response.status = 200
    /\ response.body.status = TRUE
    /\ DOMAIN response.body.result
           = {"transactionId", "amount", "expiresAt", "qrImageUrl"}
    /\ response.body.result.qrImageUrl \in DirectLinks
    /\ response.body.result.amount # <<>>

\* The response is an error and carries no record.
SingleError(response) ==
    /\ response.status \in {400, 401, 500}
    /\ response.body.status = FALSE
    /\ "error" \in DOMAIN response.body
    /\ "result" \notin DOMAIN response.body

\* The payload was rendered, then the image uploaded, both with success.
RenderedThenUploaded(cs) ==
    /\ Len(cs) = 2
    /\ cs[1].fn = "QRCode.toBuffer" /\ cs[1].outcome = "resolved"
    /\ cs[2].fn = "uploadFromBinary" /\ cs[2].outcome = "resolved"
    /\ cs[2].arg = cs[1].value

\* C7 (no partial results): a createpayment request to orderkuota.js never
\* has more than one response and has exactly one once its handler returned;
\* the response is a complete record or an error without a record; a record
\* is sent only after the payload was rendered and then uploaded with success;
\* and once a render or an upload failed the response is an error.
C7_NoPartialResults ==
    \A r \in Requests :
        CreatePaymentA(r) =>
            /\ pc[r] # "crashed"
            /\ Len(sent[r]) = (IF pc[r] = "done" THEN 1 ELSE 0)
            /\ \A i \in 1..Len(sent[r]) :
                   /\ CompleteRecord(sent[r][i]) \/ SingleError(sent[r][i])
                   /\ CompleteRecord(sent[r][i]) => RenderedThenUploaded(calls[r])
            /\ (\E i \in 1..Len(calls[r]) : calls[r][i].outcome = "rejected") =>
                   /\ pc[r] = "done"
                   /\ \A i \in 1..Len(sent[r]) : sent[r][i].status = 500

\* C7, its case: the upload of a request failed after its payload was
\* rendered, and the request was answered.
C7_Witness ==
    \E r \in Requests :
        /\ CreatePaymentA(r)
        /\ Len(calls[r]) = 2
        /\ calls[r][1].outcome = "resolved"
        /\ calls[r][2].outcome = "rejected"
        /\ Len(sent[r]) = 1

\* Request r is a cekstatus request to orderkuota.js whose gateway call has
\* been settled.
LookedUp(r) ==
    /\ query[r].file = FileA
    /\ query[r].route = "cekstatus"
    /\ Len(calls[r]) = 1
    /\ calls[r][1].outcome # "pending"

GatewayFailed(call) ==
    \/ call.outcome = "rejected"
    \/ call.outcome = "resolved"
           /\ (call.value.kind # "object" \/ ~ call.value.success)

\* C8 (status lookup): a cekstatus request to orderkuota.js whose gateway call has been
\* settled is answered with the first entry of the gateway's list when the
\* list is non-empty, with the none-found response when the list is empty,
\* and with an error other than the none-found response when the call failed
\* or the gateway reported failure.
C8_StatusLookup ==
    \A r \in Requests :
        LookedUp(r) =>
            /\ Len(sent[r]) = 1
            /\ IF GatewayFailed(calls[r][1])
               THEN /\ sent[r][1] # NoTransactionsFound
                    /\ sent[r][1].status >= 400
               ELSE LET body == calls[r][1].value
                    IN  /\ (body.hasData /\ body.data # <<>>) =>
                               sent[r][1] = LatestTransaction(body.data[1])
                        /\ (body.hasData /\ body.data = <<>>) =>
                               sent[r][1] = NoTransactionsFound

\* What a createpayment request answers when it runs alone: a function of
\* its own query, of how its own calls were settled, and of the clock, the
\* time zone and the random bytes its record is made from.
ResponseAlone(q, cs, now, zone, randomPart) ==
    IF cs = <<>>
    THEN IF q.file = FileA
         THEN IF Unauthorized(q.apikey)
              THEN <<Response(401, [status |-> FALSE,
                                    error |-> "Unauthorized: Invalid API key"])>>
              ELSE IF q.amount = <<>>
              THEN <<Response(400, [status |-> FALSE,
                                    error |-> "Bad Request: Amount is required"])>>
              ELSE IF q.codeqr = <<>>
              THEN <<Response(400, [status |-> FALSE,
                        error |-> "Bad Request: Base QRIS code (codeqr) is required"])>>
              ELSE <<InternalServerError(
                        createDynamicQRIS_compose(q.codeqr, q.amount).message)>>
         ELSE IF ~ globalApikey.defined THEN <<>>
              ELSE IF q.apikey \notin globalApikey.keys
              THEN <<Response(200, [status |-> FALSE, error |-> "Apikey invalid"])>>
              ELSE IF q.amount = <<>>
              THEN <<Response(200, [status |-> FALSE, error |-> "Amount is required"])>>
              ELSE <<Response(200, [status |-> FALSE, error |-> "QrCode is required"])>>
    ELSE LET last == cs[Len(cs)]
         IN  IF last.outcome = "pending" THEN <<>>
             ELSE IF last.outcome = "rejected"
             THEN IF q.file = FileB THEN <<LegacyError(last.value)>>
                  ELSE IF last.fn = "QRCode.toBuffer"
                  THEN <<InternalServerError(last.value)>>
                  ELSE <<InternalServerError("Failed to upload QR code image.")>>
             ELSE IF q.file = FileA
             THEN <<Response(200,
                      [status |-> TRUE,
                       message |-> "QRIS payment created successfully.",
                       result |-> TransactionRecord(q.amount, last.value,
                                                    now, zone, randomPart)])>>
             ELSE <<Response(200,
                      [status |-> TRUE,
                       result |-> LegacyRecord(q.amount, last.value,
                                               now, zone, randomPart)])>>

\* Where the handler of such a request is, alone.
PcAlone(q, cs) ==
    IF cs = <<>>
    THEN IF q.file = FileB /\ ~ globalApikey.defined THEN "crashed" ELSE "done"
    ELSE LET last == cs[Len(cs)]
         IN  IF last.outcome # "pending" THEN "done"
             ELSE IF last.fn = "QRCode.toBuffer" THEN "rendering" ELSE "uploading"

\* C9 (request independence): with several createpayment requests in flight,
\* what each request has answered, and where its handler is, is what the
\* request answers alone, given its own query and the outcomes of its own
\* render and upload.
C9_Independence ==
    \A r \in Requests :
        (Arrived(r) /\ query[r].route = "createpayment") =>
            /\ \E now \in Times, zone \in TimeZones, randomPart \in RandomParts :
                   sent[r] = ResponseAlone(query[r], calls[r], now, zone, randomPart)
            /\ pc[r] = PcAlone(query[r], calls[r])

\* C9, its case: two requests to orderkuota.js were waiting for their
\* uploads; the upload of one failed and the other was answered with its
\* record.
C9_Witness ==
    \E r, s \in Requests :
        /\ r # s
        /\ CreatePaymentA(r) /\ CreatePaymentA(s)
        /\ Len(calls[r]) = 2 /\ calls[r][2].outcome = "rejected"
        /\ Len(calls[s]) = 2 /\ calls[s][2].outcome = "resolved"
        /\ Len(sent[r]) = 1 /\ sent[r][1].status = 500
        /\ Len(sent[s]) = 1 /\ sent[s][1].status = 200

\* C10 (equivalence of the composers): for a createpayment request to
\* part_000 that passed the route's validation, createQRIS hands the renderer
\* the payload createDynamicQRIS composes from the same template and amount,
\* and hands it nothing when createDynamicQRIS rejects them.
C10_Equivalence ==
    \A r \in Requests :
        (ReachedComposer(r) /\ query[r].file = FileB) =>
            LET reference ==
                    createDynamicQRIS_compose(query[r].codeqr, query[r].amount)
            IN  IF reference.throws
                THEN calls[r] = <<>>
                ELSE calls[r] # <<>> /\ Payload(r) = reference.text

=============================================================================
